---- MODULE Spec2Model ----
(***************************************************************************)
(* The research-history store of the Next.js front end                     *)
(* (frontend/nextjs/hooks/useResearchHistory.ts): a localStorage-backed,   *)
(* bounded list of research records; the Home page that saves to it; and   *)
(* the local chat of the page (ChatInterface, handleLocalChat and the API  *)
(* route pages/api/local-chat.ts).                                         *)
(*                                                                         *)
(* Texts are modelled by their content in the family  a^n .^k  (n letters  *)
(* followed by k dots), which is closed under substring(0, m) and under    *)
(* appending the ellipsis marker "...". All characters are ASCII, so the   *)
(* UTF-8 byte size of a JSON text equals its length.                       *)
(***************************************************************************)
EXTENDS Integers, Sequences, FiniteSets, TLC

VARIABLES
    history,    \* React state of the hook: the in-memory collection
    closure,    \* the `history` captured by the functions of the last render
    persisted,  \* localStorage value under the key 'researchHistory'
    capacity,   \* the longest value the storage area accepts under the key
    now,        \* the wall clock read by Date.now()
    ops,        \* number of saveResearch, deleteResearch and clearHistory calls
    last,       \* the last operation: its kind, arguments and outcome
    page,       \* state of the Home page that uses the hook
    chat,       \* state of ChatInterface and the local-chat state of Home
    backendFiles, \* names of the documents the Python backend holds
    calls,      \* the requests made to /api/local-chat, in the order made
    drop        \* the position of onDrop, the upload handler

storeVars == <<history, closure, persisted, capacity, now, ops, last, page>>
chatVars == <<chat, backendFiles, calls, drop>>
vars == <<storeVars, chatVars>>

-----------------------------------------------------------------------------
(* Configuration constants of the hook *)

MAX_HISTORY_ITEMS == 15
MAX_STORAGE_SIZE == 4 * 1024 * 1024
MAX_ANSWER_LENGTH == 5000
MAX_ORDERED_DATA_ITEMS == 3

\* Date.now() is a 13-digit number of milliseconds (years 2001 to 2286)
TimestampDigits == 13

-----------------------------------------------------------------------------
(* Bounds of the model *)

MaxOps == 2         \* calls of saveResearch, deleteResearch and clearHistory

\* records of the largest collection an earlier session left: one too many
MaxPrior == MAX_HISTORY_ITEMS + 1

\* calls of the store made from the Home page: a save by the effect, a removal
\* in the sidebar, and the next run of the effect
MaxPageOps == MaxOps + 1

MaxCalls == 2       \* requests made to /api/local-chat

-----------------------------------------------------------------------------
(* JavaScript values: texts, undefined, and non-string (object) values *)

Min(x, y) == IF x < y THEN x ELSE y

Str(n, k) == [kind |-> "string", a |-> n, dots |-> k]
Undef == [kind |-> "undefined", a |-> 0, dots |-> 0]
Obj(n) == [kind |-> "object", a |-> n, dots |-> 0]
Ellipsis == Str(0, 3)

IsString(v) == v.kind = "string"

\* s.length
Length(s) == s.a + s.dots

\* s.substring(0, n)
Substring(s, n) ==
    IF n >= Length(s) THEN s
    ELSE IF n <= s.a THEN Str(n, 0)
    ELSE Str(s.a, n - s.a)

\* s + t, for a t made of dots only (the ellipsis marker or the empty text)
Concat(s, t) == Str(s.a, s.dots + t.dots)

\* s.endsWith('...')
EndsWithEllipsis(s) == IsString(s) /\ s.dots >= 3

-----------------------------------------------------------------------------
(* orderedData entries and history records (types/data: Data,             *)
(* ResearchHistoryItem). `extra` is the JSON length of the properties of   *)
(* an entry other than type, content, output and link, each with its       *)
(* leading comma (0 when there are none).                                  *)

Entry(t, c, o, l, x) ==
    [type |-> t, content |-> c, output |-> o, link |-> l, extra |-> x]

Item(i, q, a, t, od) ==
    [id |-> i, question |-> q, answer |-> a, timestamp |-> t, orderedData |-> od]

\* An element of a stored array that is not a record: null. It has no
\* properties, and reading one (item.id, a.timestamp) throws a TypeError.
Null == [kind |-> "null", a |-> 0, dots |-> 0]
NullItem == Item(0, Null, Null, 0, <<>>)
IsNull(item) == item.question.kind = "null"
HasNull(h) == \E i \in 1..Len(h) : IsNull(h[i])

-----------------------------------------------------------------------------
(* JSON.stringify / JSON.parse. A JSON text is modelled by its document:   *)
(* an object is the list of the properties it writes, and a property whose *)
(* value is undefined is not written.                                      *)

Absent == [kind |-> "absent", len |-> 0, items |-> <<>>]
\* a text of n characters that JSON.parse rejects (n = 0: the empty string)
NonJson(n) == [kind |-> "text", len |-> n, items |-> <<>>]
\* a JSON text of n characters whose value is not an array
NonArray(n) == [kind |-> "json", len |-> n, items |-> <<>>]

RECURSIVE Sum(_)
Sum(lens) == IF lens = <<>> THEN 0 ELSE Head(lens) + Sum(Tail(lens))

\* length of "[" x1 "," x2 ... "]", given the lengths of x1, x2, ...
ArrayLen(lens) ==
    2 + Sum(lens) + (IF Len(lens) > 0 THEN Len(lens) - 1 ELSE 0)

\* length of the JSON text of a value: a quoted ASCII text, or an object
ValueLen(v) == IF IsString(v) THEN Length(v) + 2 ELSE v.a

\* length of  ,"key":value
PropLen(p) == 1 + (Len(p[1]) + 3) + ValueLen(p[2])

StringifyEntry(e) ==
    [type |-> e.type,
     props |-> SelectSeq(<<<<"content", e.content>>, <<"output", e.output>>,
                           <<"link", e.link>>>>,
                         LAMBDA p : p[2].kind # "undefined"),
     extra |-> e.extra]

StringifyItem(it) ==
    [id |-> it.id, question |-> it.question, answer |-> it.answer,
     timestamp |-> it.timestamp,
     orderedData |-> [i \in 1..Len(it.orderedData) |->
                         StringifyEntry(it.orderedData[i])]]

\* length of  {"type":"t" ,"content":... ,"output":... ,"link":... <extra>}
JsonEntryLen(j) ==
    2 + (9 + Len(j.type))
      + Sum([i \in 1..Len(j.props) |-> PropLen(j.props[i])]) + j.extra

\* length of {"id":"..","question":"..","answer":"..","timestamp":..,"orderedData":[..]}
JsonItemLen(j) ==
    IF IsNull(j) THEN 4 ELSE
    2 + (5 + TimestampDigits + 2) + 1 + (11 + ValueLen(j.question))
      + 1 + (9 + ValueLen(j.answer)) + 1 + (12 + TimestampDigits)
      + 1 + (14 + ArrayLen([i \in 1..Len(j.orderedData) |->
                                JsonEntryLen(j.orderedData[i])]))

\* JSON.stringify(history): the text written to localStorage
Stringify(h) ==
    LET items == [i \in 1..Len(h) |-> StringifyItem(h[i])]
    IN  [kind |-> "array", len |-> ArrayLen([i \in 1..Len(items) |-> JsonItemLen(items[i])]),
         items |-> items]

RECURSIVE Lookup(_, _)
Lookup(props, key) ==
    IF props = <<>> THEN Undef
    ELSE IF Head(props)[1] = key THEN Head(props)[2]
    ELSE Lookup(Tail(props), key)

ParseEntry(j) ==
    Entry(j.type, Lookup(j.props, "content"), Lookup(j.props, "output"),
          Lookup(j.props, "link"), j.extra)

ParseItem(j) ==
    Item(j.id, j.question, j.answer, j.timestamp,
         [i \in 1..Len(j.orderedData) |-> ParseEntry(j.orderedData[i])])

\* JSON.parse of a text that holds an array of records
Parse(p) == [i \in 1..Len(p.items) |-> ParseItem(p.items[i])]

\* new Blob([JSON.stringify(data)]).size
getStorageSize(h) == Stringify(h).len

-----------------------------------------------------------------------------
(* cleanData: keep the first MAX_ORDERED_DATA_ITEMS entries, truncating    *)
(* the text fields of the entry types the switch knows.                    *)

\* s.slice(0, n)
Slice(s, n) == SubSeq(s, 1, Min(Len(s), n))

\* typeof c === 'string' ? c.substring(0, 1000) + (c.length > 1000 ? '...' : '') : c
TruncContent(c) ==
    IF IsString(c)
    THEN Concat(Substring(c, 1000), IF Length(c) > 1000 THEN Ellipsis ELSE Str(0, 0))
    ELSE c

\* typeof o === 'string' && o.length > 500 ? o.substring(0, 500) + '...' : o
TruncOutput(o) ==
    IF IsString(o) /\ Length(o) > 500
    THEN Concat(Substring(o, 500), Ellipsis)
    ELSE o

cleanEntry(item) ==
    CASE item.type \in {"basic", "question", "chat"} ->
            Entry(item.type, TruncContent(item.content), Undef, Undef, 0)
      [] item.type = "langgraphButton" ->
            Entry(item.type, Undef, Undef, item.link, 0)
      [] item.type \in {"differences", "error"} ->
            Entry(item.type, TruncContent(item.content), TruncOutput(item.output),
                  Undef, 0)
      [] OTHER -> item

cleanData(data) ==
    LET kept == Slice(data, MAX_ORDERED_DATA_ITEMS)
    IN  [i \in 1..Len(kept) |-> cleanEntry(kept[i])]

-----------------------------------------------------------------------------
(* cleanupHistory: the compaction of a collection                          *)

\* x placed in a list sorted newest first, before the first record that is
\* not newer than x (Array.prototype.sort is stable)
RECURSIVE InsertNewestFirst(_, _)
InsertNewestFirst(x, s) ==
    IF s = <<>> THEN <<x>>
    ELSE IF Head(s).timestamp > x.timestamp
         THEN <<Head(s)>> \o InsertNewestFirst(x, Tail(s))
         ELSE <<x>> \o s

SortKeepsOrder(h) == h

\* the comparator reads the timestamp of both its arguments; it is called
\* when the array has two elements or more
SortThrows(h) == Len(h) > 1 /\ HasNull(h)

\* [...h].sort((a, b) => b.timestamp - a.timestamp)
RECURSIVE SortNewestFirst(_)
SortNewestFirst(h) ==
    IF h = <<>> THEN <<>>
    ELSE InsertNewestFirst(Head(h), SortNewestFirst(Tail(h)))

ShrinkItemAnswerOnly(item) ==
    [item EXCEPT
        !.answer = Concat(Substring(@, MAX_ANSWER_LENGTH \div 2),
                          IF Length(@) > MAX_ANSWER_LENGTH \div 2
                          THEN Ellipsis ELSE Str(0, 0))]

\* the per-item reduction of the second stage
ShrinkItem(item) ==
    [item EXCEPT
        !.answer = Concat(Substring(@, MAX_ANSWER_LENGTH \div 2),
                          IF Length(@) > MAX_ANSWER_LENGTH \div 2
                          THEN Ellipsis ELSE Str(0, 0)),
        !.orderedData = Slice(@, 2)]

\* drops the oldest record once, whatever the size
DropOneAlways(h) == IF Len(h) > 1 THEN SubSeq(h, 1, Len(h) - 1) ELSE h

\* drops down to one record as soon as the collection is over the budget
DropAllButNewest(h) ==
    IF getStorageSize(h) > MAX_STORAGE_SIZE /\ Len(h) > 1 THEN SubSeq(h, 1, 1) ELSE h

\* while (size > MAX_STORAGE_SIZE && length > 1) h = h.slice(0, -1)
RECURSIVE DropOldest(_)
DropOldest(h) ==
    IF getStorageSize(h) > MAX_STORAGE_SIZE /\ Len(h) > 1
    THEN DropOldest(SubSeq(h, 1, Len(h) - 1))
    ELSE h

CapItemsOffByOne(h) == Slice(SortNewestFirst(h), MAX_HISTORY_ITEMS + 1)
CapItems(h) == Slice(SortNewestFirst(h), MAX_HISTORY_ITEMS)

cleanupHistory(currentHistory) ==
    LET capped == CapItems(currentHistory)
        shrunk == IF getStorageSize(capped) > MAX_STORAGE_SIZE
                  THEN [i \in 1..Len(capped) |-> ShrinkItem(capped[i])]
                  ELSE capped
    IN  DropOldest(shrunk)

-----------------------------------------------------------------------------
(* localStorage and safeSetItem                                            *)

\* localStorage.setItem(key, value) stores the value, or throws
\* QuotaExceededError when the value does not fit the storage area
Accepts(cap, value) == value.len <= cap

\* if (currentData): a stored, non-empty text
Truthy(p) == p.kind # "absent" /\ p.len > 0

\* a recovery that leaves the key as it is when it fails
QuotaRecoveryKeepsKey(store, cap) ==
    IF Truthy(store) /\ store.kind = "json" /\ Accepts(cap, Stringify(<<>>))
    THEN [ok |-> TRUE, store |-> Stringify(<<>>), recovery |-> "accepted"]
    ELSE IF Truthy(store) /\ store.kind = "array" /\ ~SortThrows(Parse(store))
            /\ Accepts(cap, Stringify(cleanupHistory(Parse(store))))
    THEN [ok |-> TRUE, store |-> Stringify(cleanupHistory(Parse(store))),
          recovery |-> "accepted"]
    ELSE [ok |-> FALSE, store |-> store,
          recovery |-> IF ~Truthy(store) THEN "none"
                       ELSE IF store.kind = "array" /\ ~SortThrows(Parse(store))
                            THEN "rejected" ELSE "unparseable"]

\* the catch branch of safeSetItem: compact what is stored and store that
QuotaRecovery(store, cap) ==
    IF ~Truthy(store) THEN [ok |-> FALSE, store |-> store, recovery |-> "none"]
    ELSE IF store.kind = "text"
         THEN [ok |-> FALSE, store |-> Absent, recovery |-> "unparseable"]
    ELSE LET parsed == IF store.kind = "array" THEN Parse(store) ELSE <<>>
             cleaned == Stringify(cleanupHistory(parsed))
         IN  IF SortThrows(parsed)
             THEN [ok |-> FALSE, store |-> Absent, recovery |-> "unparseable"]
             ELSE IF Accepts(cap, cleaned)
             THEN [ok |-> TRUE, store |-> cleaned, recovery |-> "accepted"]
             ELSE [ok |-> FALSE, store |-> Absent, recovery |-> "rejected"]

\* safeSetItem('researchHistory', value): the result and the stored value after it
safeSetItem(store, cap, value) ==
    IF Accepts(cap, value)
    THEN [ok |-> TRUE, store |-> value, initial |-> TRUE, recovery |-> "none"]
    ELSE LET r == QuotaRecovery(store, cap)
         IN  [ok |-> r.ok, store |-> r.store, initial |-> FALSE,
              recovery |-> r.recovery]

\* safeSetItem while another tab of the origin uses the storage area: between
\* the rejected write and the recovery write the space left to the key has
\* become cap2
safeSetItemShared(store, cap, cap2, value) ==
    IF Accepts(cap, value)
    THEN [ok |-> TRUE, store |-> value, initial |-> TRUE, recovery |-> "none"]
    ELSE LET r == QuotaRecovery(store, cap2)
         IN  [ok |-> r.ok, store |-> r.store, initial |-> FALSE,
              recovery |-> r.recovery]

-----------------------------------------------------------------------------
(* Inputs                                                                  *)

\* a record as an earlier session stored it: short texts, no orderedData
Filler(i) == Item(i, Str(10, 0), Str(20, 0), i, <<>>)

\* a record of an earlier session that holds a full report in an entry of a
\* type cleanData passes through
BigFiller(i) ==
    Item(i, Str(10, 0), Str(3000, 0), i,
         <<Entry("question", Str(10, 0), Undef, Undef, 0),
           Entry("report", Undef, Str(300000, 0), Undef, 25),
           Entry("basic", Str(40, 0), Undef, Undef, 0)>>)

\* a record of an earlier session whose report is its third entry, which the
\* field reduction of compaction removes
BulkyFiller(i) ==
    Item(i, Str(10, 0), Str(3000, 0), i,
         <<Entry("question", Str(10, 0), Undef, Undef, 0),
           Entry("basic", Str(40, 0), Undef, Undef, 0),
           Entry("report", Undef, Str(1500000, 0), Undef, 25)>>)

\* the collections k .. 1, newest first
Fillers(k) == [i \in 1..k |-> Filler(k + 1 - i)]
\* an array of k nulls
Nulls(k) == [i \in 1..k |-> NullItem]
BigFillers(k) == [i \in 1..k |-> BigFiller(k + 1 - i)]
BulkyFillers(k) == [i \in 1..k |-> BulkyFiller(k + 1 - i)]

\* what the storage key may hold when a session starts
InitPersisted ==
    { Absent, NonJson(7), NonArray(7),
      Stringify(Fillers(2)),
      Stringify(Fillers(MaxPrior)),
      Stringify(BigFillers(MAX_HISTORY_ITEMS)),
      Stringify(BulkyFillers(3)),
      Stringify(Nulls(1)), Stringify(Nulls(2)) }

\* Space the storage area leaves to the key, the other keys of the origin
\* taken off the quota (5M characters in the common browsers): none, a few
\* kilobytes, nearly all. The stored value fits, or it would not be stored.
Capacities == { 0, 2500, 5000000 }

Fits(store, cap) == store.len <= cap

\* the (question, answer, orderedData) triples saveResearch is called with
SaveInputs ==
    { <<Str(11, 0), Str(6000, 0), <<>>>>,
      <<Str(250, 0), Str(100, 0),
        <<Entry("question", Str(250, 0), Undef, Undef, 0),
          Entry("basic", Str(1200, 0), Undef, Undef, 12),
          Entry("differences", Str(11, 0), Str(600, 0), Undef, 0),
          Entry("chat", Str(30, 0), Undef, Undef, 0)>>>>,
      <<Str(11, 0), Str(4997, 3),
        <<Entry("question", Str(11, 0), Undef, Undef, 0),
          Entry("langgraphButton", Undef, Undef, Str(4500000, 0), 0)>>>>,
      <<Str(11, 0), Str(0, 0),
        <<Entry("question", Str(11, 0), Undef, Undef, 0),
          Entry("report", Undef, Str(2000, 0), Undef, 25),
          Entry("error", Obj(40), Undef, Undef, 0)>>>> }

-----------------------------------------------------------------------------
(* The state machine                                                       *)

NoItem == Item(0, Str(0, 0), Str(0, 0), 0, <<>>)
NoArgs == <<Str(0, 0), Str(0, 0), <<>>>>

Op(kind, id, args, item, write, fallback) ==
    [op |-> kind,                 \* "init", "load", "save", "delete", "clear"
     id |-> id,                   \* the id returned (save) or given (delete)
     args |-> args,               \* save: <<question, answer, orderedData>>
     item |-> item,               \* the record save built
     stored |-> persisted.kind,   \* what the key held before the operation
     read |-> Len(closure),       \* number of records the operation read
     fresh |-> closure = history, \* the operation read the current collection
     initial |-> write.initial,   \* the first setItem was accepted
     recovery |-> write.recovery, \* outcome of the recovery write
     fallback |-> fallback,       \* the minimal fallback: "none" when not
                                  \* used, else whether its write succeeded
     threw |-> FALSE,             \* the operation ended with an exception
     cin |-> <<>>,                \* the collection given to cleanupHistory
     cout |-> <<>>]               \* and the collection it returned

NoWrite == [ok |-> TRUE, store |-> Absent, initial |-> FALSE, recovery |-> "none"]

\* The Home page after its first render: nothing asked, nothing displayed.
\* `pending` says that a render has happened since the save effect last ran,
\* `saved` counts the saveResearch calls made for the displayed research,
\* `removed` says that the user has deleted a record or cleared the history
\* in the sidebar and no research has completed since.
NoPage ==
    [question |-> Str(0, 0), answer |-> Str(0, 0), orderedData |-> <<>>,
     loading |-> FALSE, pending |-> TRUE, saved |-> 0, removed |-> FALSE]

\* ChatInterface and the local-chat state of Home after their first render:
\* useState('local'), useState(initialUploadedFiles || []), useState(false),
\* useState('ollama') in ChatInterface; chatHistory [], uploadedFiles [] and
\* isLocalChatLoading false in Home
NoChat ==
    [selectedMode |-> "local", localProvider |-> "ollama",
     uploadedFiles |-> {}, homeFiles |-> {}, isUploading |-> FALSE,
     isLocalChatLoading |-> FALSE, chatHistory |-> <<>>]

\* onDrop is not running
NoDrop == [pc |-> "idle", files |-> {}, outcome |-> "none"]

ChatIdle ==
    /\ chat = NoChat
    /\ calls = <<>>
    /\ drop = NoDrop

\* the store when a session starts with one of the given texts under the key
InitStoreFrom(stored) ==
    /\ page = NoPage
    /\ history = <<>>
    /\ closure = <<>>
    /\ persisted \in stored
    /\ capacity \in Capacities
    /\ Fits(persisted, capacity)
    /\ now = MaxPrior + 1
    /\ ops = 0
    /\ last = [op |-> "init", id |-> 0, args |-> NoArgs, item |-> NoItem,
               stored |-> persisted.kind, read |-> 0, fresh |-> TRUE,
               initial |-> FALSE, recovery |-> "none", fallback |-> "none",
               threw |-> FALSE, cin |-> <<>>, cout |-> <<>>]

InitStore == InitStoreFrom(InitPersisted)

Init == InitStore /\ ChatIdle /\ backendFiles = {}

Mounted == last.op # "init"

\* the value removeItem leaves under the key
RemoveItemKeeps(store) == store
RemoveItem(store) == Absent

\* a load effect that stores the compacted collection whenever it read an array
LoadResultAlwaysWrites(store, cap) ==
    IF Truthy(store) /\ store.kind = "array" /\ ~SortThrows(Parse(store))
    THEN LET w == safeSetItem(store, cap, Stringify(cleanupHistory(Parse(store))))
         IN  [hist |-> cleanupHistory(Parse(store)), write |-> w, store |-> w.store]
    ELSE IF Truthy(store) /\ store.kind # "json"
    THEN [hist |-> <<>>, write |-> NoWrite, store |-> Absent]
    ELSE [hist |-> <<>>, write |-> NoWrite, store |-> store]

\* The effect that runs when the hook mounts (a session start or reload):
\* the state starts empty and is filled from the stored value. The component
\* re-renders with the new state before the next event is handled.
LoadResult(store, cap) ==
    IF ~Truthy(store) THEN [hist |-> <<>>, write |-> NoWrite, store |-> store]
    ELSE IF store.kind = "text"
         THEN [hist |-> <<>>, write |-> NoWrite, store |-> RemoveItem(store)]
    ELSE IF store.kind = "array"
         THEN LET parsed == Parse(store)
                  cleanedHistory == cleanupHistory(parsed)
                  w == safeSetItem(store, cap, Stringify(cleanedHistory))
              IN  IF SortThrows(parsed)
                  THEN [hist |-> <<>>, write |-> NoWrite, store |-> RemoveItem(store)]
                  ELSE IF Len(cleanedHistory) # Len(parsed)
                  THEN [hist |-> cleanedHistory, write |-> w, store |-> w.store]
                  ELSE [hist |-> cleanedHistory, write |-> NoWrite, store |-> store]
    ELSE [hist |-> <<>>, write |-> NoWrite, store |-> store]

\* the array the load effect gives to cleanupHistory, if it gets that far
LoadInput(store) ==
    IF Truthy(store) /\ store.kind = "array" /\ ~SortThrows(Parse(store))
    THEN Parse(store) ELSE <<>>

\* the render that follows a state update: the functions of the hook now
\* close over the new state
Render == closure' = history'

loadEffect ==
    LET r == LoadResult(persisted, capacity)
    IN  /\ history' = r.hist
        /\ persisted' = r.store
        /\ last' = [Op("load", 0, NoArgs, NoItem, r.write, "none")
                       EXCEPT !.fresh = TRUE, !.read = 0,
                              !.cin = LoadInput(persisted), !.cout = r.hist]
        /\ UNCHANGED <<capacity, now, ops>>

Load ==
    /\ loadEffect
    /\ Render
    /\ UNCHANGED <<page, chatVars>>

CleanAnswerNoMarker(answer) == Substring(answer, MAX_ANSWER_LENGTH)

\* answer.length > MAX_ANSWER_LENGTH ? answer.substring(0, MAX_ANSWER_LENGTH) + '...' : answer
CleanAnswer(answer) ==
    IF Length(answer) > MAX_ANSWER_LENGTH
    THEN Concat(Substring(answer, MAX_ANSWER_LENGTH), Ellipsis)
    ELSE answer

\* question.substring(0, 200)
CleanQuestion(question) == Substring(question, 200)

\* the record saveResearch builds; t1 and t2 are its two readings of Date.now()
NewItem(question, answer, orderedData, t1, t2) ==
    Item(t1, CleanQuestion(question), CleanAnswer(answer), t2,
         cleanData(orderedData))

\* cleanedHistory.slice(0, 5).map(...): the minimal version of a collection
MinimalItem(item) ==
    Item(item.id, Substring(item.question, 100), Substring(item.answer, 500),
         item.timestamp, <<>>)

MinimalHistory(h) ==
    LET kept == Slice(h, 5)
    IN  [i \in 1..Len(kept) |-> MinimalItem(kept[i])]

\* The two readings of Date.now() in saveResearch (id, then timestamp) when
\* the last reading was t: both in the same millisecond as the last one, the
\* second one a millisecond later, or both at an earlier time because the
\* system clock was set back in between (Date.now() is not monotonic).
ClockReadings(t) == {<<t, t>>, <<t, t + 1>>, <<0, 0>>}

\* t1 and t2 are the readings of Date.now() for the id and for the timestamp
saveResearch(question, answer, orderedData, t1, t2) ==
    LET newItem == NewItem(question, answer, orderedData, t1, t2)
        updatedHistory == <<newItem>> \o closure
        cleanedHistory == cleanupHistory(updatedHistory)
        w == safeSetItem(persisted, capacity, Stringify(cleanedHistory))
        minimalHistory == MinimalHistory(cleanedHistory)
        w2 == safeSetItem(w.store, capacity, Stringify(minimalHistory))
    IN  /\ now' = t2
        /\ ops' = ops + 1
        /\ UNCHANGED capacity
        /\ IF SortThrows(updatedHistory)
           THEN \* the TypeError leaves saveResearch before setHistory
                /\ UNCHANGED <<history, persisted>>
                /\ last' = [Op("save", newItem.id, <<question, answer, orderedData>>,
                               newItem, NoWrite, "none") EXCEPT !.threw = TRUE]
           ELSE /\ history' = IF w.ok THEN cleanedHistory ELSE minimalHistory
                /\ persisted' = IF w.ok THEN w.store ELSE w2.store
                /\ last' = [Op("save", newItem.id, <<question, answer, orderedData>>,
                               newItem, w,
                               IF w.ok THEN "none"
                               ELSE IF w2.initial THEN "accepted"
                               ELSE IF w2.ok THEN "recovered" ELSE "failed")
                              EXCEPT !.cin = updatedHistory, !.cout = cleanedHistory]

Save ==
    /\ Mounted
    /\ ops < MaxOps
    /\ \E in \in SaveInputs, t \in ClockReadings(now) :
          saveResearch(in[1], in[2], in[3], t[1], t[2])
    /\ Render
    /\ UNCHANGED <<page, chatVars>>

\* history.filter(item => item.id !== id)
RemoveId(h, id) == SelectSeq(h, LAMBDA item : item.id # id)

deleteResearch(id) ==
    LET updatedHistory == RemoveId(closure, id)
        w == safeSetItem(persisted, capacity, Stringify(updatedHistory))
    IN  /\ ops' = ops + 1
        /\ UNCHANGED <<capacity, now>>
        /\ IF HasNull(closure)
           THEN \* item.id of a null: the filter callback throws
                /\ UNCHANGED <<history, persisted>>
                /\ last' = [Op("delete", id, NoArgs, NoItem, NoWrite, "none")
                               EXCEPT !.threw = TRUE]
           ELSE /\ history' = updatedHistory
                /\ persisted' = w.store
                /\ last' = Op("delete", id, NoArgs, NoItem, w, "none")

\* the sidebar lists the rendered records; the first or the last listed one
\* is deleted
Delete ==
    /\ Mounted
    /\ ops < MaxOps
    /\ closure # <<>>
    /\ \E i \in {1, Len(closure)} :
          ~IsNull(closure[i]) /\ deleteResearch(closure[i].id)
    /\ Render
    /\ UNCHANGED <<page, chatVars>>

\* deleteResearch while another tab fills the storage area
deleteResearchShared(id, cap2) ==
    LET updatedHistory == RemoveId(closure, id)
        w == safeSetItemShared(persisted, capacity, cap2, Stringify(updatedHistory))
    IN  /\ ~HasNull(closure)
        /\ ~w.initial
        /\ history' = updatedHistory
        /\ persisted' = w.store
        /\ capacity' = cap2
        /\ ops' = ops + 1
        /\ last' = Op("delete", id, NoArgs, NoItem, w, "none")
        /\ UNCHANGED now

DeleteShared ==
    /\ Mounted
    /\ ops < MaxOps
    /\ closure # <<>>
    /\ \E i \in {1, Len(closure)}, cap2 \in Capacities :
          cap2 < capacity /\ deleteResearchShared(closure[i].id, cap2)
    /\ Render
    /\ UNCHANGED <<page, chatVars>>

clearHistory ==
    /\ history' = <<>>
    /\ persisted' = RemoveItem(persisted)
    /\ ops' = ops + 1
    /\ last' = Op("clear", 0, NoArgs, NoItem, NoWrite, "none")
    /\ UNCHANGED <<capacity, now>>

Clear == Mounted /\ ops < MaxOps /\ clearHistory /\ Render /\ UNCHANGED <<page, chatVars>>

\* other keys of the origin (such as 'apiVariables') grow or shrink
QuotaChange ==
    /\ \E c \in Capacities \ {capacity} : Fits(persisted, c) /\ capacity' = c
    /\ UNCHANGED <<history, closure, persisted, now, ops, last, page, chatVars>>

Next ==
    \/ Load
    \/ Save
    \/ Delete
    \/ Clear
    \/ QuotaChange

Spec == Init /\ [][Next]_vars

\* the store in a browser where other tabs of the origin write to the storage
\* area while a handler of this tab runs
NextShared == Next \/ DeleteShared

SpecShared == Init /\ [][NextShared]_vars

\* Texts at the limits of the truncations: a record of an earlier session
\* with an answer of 2501 characters and a report in its second entry, and
\* save inputs one character over the limits and at the limits
EdgeFiller(i) ==
    Item(i, Str(10, 0), Str(2501, 0), i,
         <<Entry("question", Str(10, 0), Undef, Undef, 0),
           Entry("report", Undef, Str(1500000, 0), Undef, 25)>>)

EdgeFillers(k) == [i \in 1..k |-> EdgeFiller(k + 1 - i)]

EdgeInputs ==
    { <<Str(201, 0), Str(5001, 0),
        <<Entry("basic", Str(1001, 0), Undef, Undef, 0),
          Entry("error", Str(1000, 0), Str(501, 0), Undef, 0)>>>>,
      <<Str(200, 0), Str(5000, 0),
        <<Entry("question", Str(1000, 0), Undef, Undef, 0),
          Entry("differences", Str(999, 0), Str(500, 0), Undef, 0)>>>>,
      <<Str(11, 0), Str(2502, 0),
        <<Entry("question", Str(11, 0), Undef, Undef, 0),
          Entry("langgraphButton", Undef, Undef, Str(4500000, 0), 0)>>>> }

SaveAtLimits ==
    /\ Mounted
    /\ ops < MaxOps
    /\ \E in \in EdgeInputs, t \in ClockReadings(now) :
          saveResearch(in[1], in[2], in[3], t[1], t[2])
    /\ Render
    /\ UNCHANGED <<page, chatVars>>

InitLimits ==
    /\ InitStoreFrom({Absent, Stringify(EdgeFillers(3))})
    /\ ChatIdle
    /\ backendFiles = {}

NextLimits ==
    \/ Load
    \/ SaveAtLimits
    \/ QuotaChange

SpecLimits == InitLimits /\ [][NextLimits]_vars

\* A caller that invokes the functions of the hook one after the other in one
\* handler or effect: each call returns before the next is made, and the
\* component renders again only after the handler has ended. Until then the
\* functions are those of the last render and read its `history`.
SaveBeforeRender ==
    /\ Mounted
    /\ ops < MaxOps
    /\ \E in \in SaveInputs, t \in ClockReadings(now) :
          saveResearch(in[1], in[2], in[3], t[1], t[2])
    /\ UNCHANGED <<closure, page, chatVars>>

DeleteBeforeRender ==
    /\ Mounted
    /\ ops < MaxOps
    /\ closure # <<>>
    /\ \E i \in {1, Len(closure)} :
          ~IsNull(closure[i]) /\ deleteResearch(closure[i].id)
    /\ UNCHANGED <<closure, page, chatVars>>

ClearBeforeRender ==
    /\ Mounted
    /\ ops < MaxOps
    /\ clearHistory
    /\ UNCHANGED <<closure, page, chatVars>>

\* the render React makes for the state updates of the handler
Rerender ==
    /\ closure # history
    /\ closure' = history
    /\ UNCHANGED <<history, persisted, capacity, now, ops, last, page, chatVars>>

NextCalls ==
    \/ Load
    \/ SaveBeforeRender
    \/ DeleteBeforeRender
    \/ ClearBeforeRender
    \/ Rerender

SpecCalls == Init /\ [][NextCalls]_vars

-----------------------------------------------------------------------------
(* The Home page (app/page.tsx): it starts a research, displays its result *)
(* and saves it to the history from an effect.                             *)

\* handleDisplayResult on the blank page: the question is displayed and the
\* research runs
StartResearch ==
    /\ Mounted
    /\ Length(page.question) = 0
    /\ \E in \in SaveInputs :
          page' = [question |-> in[1], answer |-> Str(0, 0),
                   orderedData |-> <<Entry("question", in[1], Undef, Undef, 0)>>,
                   loading |-> TRUE, pending |-> TRUE, saved |-> 0,
                   removed |-> FALSE]
    /\ UNCHANGED <<history, closure, persisted, capacity, now, ops, last, chatVars>>

\* the research ends: the socket handlers have set the answer and the
\* orderedData, and loading is over
ResearchCompletes ==
    /\ page.loading
    /\ \E in \in SaveInputs :
          /\ in[1] = page.question
          /\ page' = [page EXCEPT !.answer = in[2],
                                  !.orderedData = IF in[3] = <<>> THEN @ ELSE in[3],
                                  !.loading = FALSE,
                                  !.pending = TRUE,
                                  !.removed = FALSE]
    /\ UNCHANGED <<history, closure, persisted, capacity, now, ops, last, chatVars>>

\* question && !loading && (answer || orderedData.length > 1)
ShouldSave ==
    /\ Length(page.question) > 0
    /\ ~page.loading
    /\ Length(page.answer) > 0 \/ Len(page.orderedData) > 1

\* The effect that saves the research. saveResearch is among its dependencies
\* and is a new function in every render, so the effect runs after every
\* render; the setHistory of saveResearch causes the next render.
SaveEffect ==
    /\ Mounted
    /\ page.pending
    /\ ShouldSave
    /\ ops < MaxPageOps
    /\ \E t \in ClockReadings(now) :
          saveResearch(page.question, page.answer, page.orderedData, t[1], t[2])
    /\ Render
    /\ page' = [page EXCEPT !.pending = ~last'.threw,
                            !.saved = IF last'.threw THEN @ ELSE @ + 1]
    /\ UNCHANGED chatVars

\* the same effect when its condition does not hold
SkipEffect ==
    /\ Mounted
    /\ page.pending
    /\ ~ShouldSave
    /\ page' = [page EXCEPT !.pending = FALSE]
    /\ UNCHANGED <<history, closure, persisted, capacity, now, ops, last, chatVars>>

\* checkUploadedFiles, every 5 seconds: setUploadedFiles(files) with a new
\* array renders the page again
PollFiles ==
    /\ Mounted
    /\ ~page.pending
    /\ page' = [page EXCEPT !.pending = TRUE]
    /\ UNCHANGED <<history, closure, persisted, capacity, now, ops, last, chatVars>>

\* A click in the sidebar is handled once the effects of the render that
\* displayed the research have run.
EffectsRan == ~page.pending \/ page.saved > 0

\* onDeleteResearch={deleteResearch}: the delete button of a listed record.
\* Its setHistory renders the page again.
SidebarDelete ==
    /\ Mounted
    /\ EffectsRan
    /\ ops < MaxPageOps
    /\ closure # <<>>
    /\ \E i \in {1, Len(closure)} :
          ~IsNull(closure[i]) /\ deleteResearch(closure[i].id)
    /\ Render
    /\ page' = [page EXCEPT !.pending = TRUE, !.removed = ~last'.threw]
    /\ UNCHANGED chatVars

\* onClearHistory={clearHistory}
SidebarClear ==
    /\ Mounted
    /\ EffectsRan
    /\ ops < MaxPageOps
    /\ clearHistory
    /\ Render
    /\ page' = [page EXCEPT !.pending = TRUE, !.removed = TRUE]
    /\ UNCHANGED chatVars

\* the load effect of the hook when the page mounts
PageLoad ==
    /\ ~Mounted
    /\ loadEffect
    /\ Render
    /\ UNCHANGED <<page, chatVars>>

NextPage ==
    \/ PageLoad
    \/ StartResearch
    \/ ResearchCompletes
    \/ SaveEffect
    \/ SkipEffect
    \/ PollFiles
    \/ SidebarDelete
    \/ SidebarClear

SpecPage == Init /\ [][NextPage]_vars

-----------------------------------------------------------------------------
(* Local chat: ChatInterface (components/ChatInterface.tsx), the handlers  *)
(* of Home that serve it, and the API route pages/api/local-chat.ts.       *)
(* A text is the sequence of its characters.                               *)

RECURSIVE TrimLeft(_)
TrimLeft(t) == IF t # <<>> /\ Head(t) = " " THEN TrimLeft(Tail(t)) ELSE t

RECURSIVE TrimRight(_)
TrimRight(t) ==
    IF t # <<>> /\ t[Len(t)] = " " THEN TrimRight(SubSeq(t, 1, Len(t) - 1)) ELSE t

\* t.trim()
Trim(t) == TrimRight(TrimLeft(t))

\* the values the message of a request body can have
JsStr(t) == [kind |-> "string", text |-> t]
JsUndef == [kind |-> "undefined", text |-> <<>>]
JsNum == [kind |-> "number", text |-> <<>>]      \* a number other than 0

\* !v
Falsy(v) == v.kind = "undefined" \/ (v.kind = "string" /\ v.text = <<>>)

\* A JSON request body that is an object. `context` is the number of entries
\* of its chatHistory, -1 when it has none; provider and model are "none"
\* when the object has no such property.
Body(message, context, provider, model) ==
    [kind |-> "object", message |-> message, context |-> context,
     provider |-> provider, model |-> model]

\* the JSON body  null
NullBody ==
    [kind |-> "null", message |-> JsUndef, context |-> -1,
     provider |-> "none", model |-> "none"]

\* no request
NoBody ==
    [kind |-> "none", message |-> JsUndef, context |-> -1,
     provider |-> "none", model |-> "none"]

\* A request to /api/local-chat. `selected` is the provider the toggle showed
\* when the page made it, `documents` whether a document was listed then.
Call(origin, method, body, selected, documents) ==
    [origin |-> origin,         \* "page": handleLocalChat, "other": another client
     method |-> method,
     body |-> body,
     selected |-> selected,
     documents |-> documents,
     stage |-> "api",           \* "api", "backend", "responded", "done"
     forwarded |-> NoBody,      \* the body of the request made to the backend
     reply |-> "none",          \* what the backend replied
     status |-> 0,              \* the status of the response of the route
     payload |-> "none",        \* "backend": the backend's body, "error"
     responses |-> 0]           \* number of responses the route has sent

\* The handler of the route up to its fetch: the response it sends at once,
\* or the body it forwards to the backend.
Respond(status) ==
    [respond |-> TRUE, status |-> status, payload |-> "error", forward |-> NoBody]

\* the request the handler makes to the backend: { message: message.trim(),
\* chatHistory: chatHistory || [] }
Forward(body) ==
    [respond |-> FALSE, status |-> 0, payload |-> "none",
     forward |-> Body(JsStr(Trim(body.message.text)),
                      IF body.context < 0 THEN 0 ELSE body.context,
                      "none", "none")]

handlerEntry(method, body) ==
    IF method # "POST" THEN Respond(405)
    \* const { message, chatHistory } = req.body  of null: a TypeError, caught
    ELSE IF body.kind = "null" THEN Respond(500)
    ELSE IF Falsy(body.message) THEN Respond(400)
    \* message.trim is not a function: a TypeError, caught
    ELSE IF body.message.kind # "string" THEN Respond(500)
    ELSE IF Trim(body.message.text) = <<>> THEN Respond(400)
    ELSE Forward(body)

\* What the backend does with a request: it replies OK with a JSON body, OK
\* with a body that is not JSON, not OK, or the fetch fails.
Replies == {"ok", "badjson", "notok", "failed"}

\* the handler after its fetch
handlerReply(reply) ==
    IF reply = "ok"
    THEN [status |-> 200, payload |-> "backend"]
    ELSE [status |-> 500, payload |-> "error"]

\* a response to the page is awaited by handleLocalChat; another client has
\* it when it is sent
Delivered(origin) == IF origin = "page" THEN "responded" ELSE "done"

Providers == {"ollama", "openai"}
Files == {"a.pdf", "b.txt"}

\* what the user types into the prompt
Prompts == { <<"h", "i">>, <<" ", "h", "i", " ">> }

\* the bodies another client posts
OtherBodies ==
    { NullBody,
      Body(JsUndef, 0, "none", "none"),
      Body(JsStr(<<>>), 0, "none", "none"),
      Body(JsStr(<<" ", " ">>), 0, "none", "none"),
      Body(JsNum, 0, "none", "none"),
      Body(JsStr(<<"h", "i", " ">>), -1, "openai", "gpt-4o-mini") }

\* Every render of Home gives ChatInterface a new initialUploadedFiles array
\* made from Home's uploadedFiles, and the effect of ChatInterface on
\* [initialUploadedFiles] copies it into ChatInterface's uploadedFiles.
Synced(c) == [c EXCEPT !.uploadedFiles = c.homeFiles]

\* checkUploadedFiles of Home, at mount and every 5 seconds
CheckUploadedFiles ==
    /\ chat' = Synced([chat EXCEPT !.homeFiles = backendFiles])
    /\ UNCHANGED <<storeVars, backendFiles, calls, drop>>

\* The mode buttons; the local one is disabled without documents. The effect
\* on [selectedMode, localProvider, ...] then sets chatBoxSettings of Home.
SelectMode ==
    /\ \E m \in {"local", "research"} \ {chat.selectedMode} :
          /\ m = "local" => chat.uploadedFiles # {}
          /\ chat' = Synced([chat EXCEPT !.selectedMode = m])
    /\ UNCHANGED <<storeVars, backendFiles, calls, drop>>

\* the provider toggle, shown in local mode when documents are listed
LocalProviderChange ==
    /\ chat.selectedMode = "local"
    /\ chat.uploadedFiles # {}
    /\ \E p \in Providers \ {chat.localProvider} :
          chat' = Synced([chat EXCEPT !.localProvider = p])
    /\ UNCHANGED <<storeVars, backendFiles, calls, drop>>

\* v || d
OrDefault(v, d) == IF v = "none" THEN d ELSE v

\* The user types a prompt and submits it in local mode: handleSubmit calls
\* handleLocalChat, which runs up to its fetch.
handleSubmit(promptValue) ==
    LET localModel == IF chat.localProvider = "ollama" THEN "mistral:7b"
                      ELSE "gpt-4o-mini"
        body == Body(JsStr(promptValue), Min(Len(chat.chatHistory), 10),
                     OrDefault(chat.localProvider, "ollama"),
                     OrDefault(localModel, "mistral:7b"))
    IN  /\ Trim(promptValue) # <<>>
        /\ chat.selectedMode = "local"
        /\ calls' = Append(calls, Call("page", "POST", body, chat.localProvider,
                                       chat.uploadedFiles # {}))
        /\ chat' = Synced([chat EXCEPT !.isLocalChatLoading = TRUE,
                                       !.chatHistory = Append(@, "user")])

Submit ==
    /\ Len(calls) < MaxCalls
    /\ \E promptValue \in Prompts : handleSubmit(promptValue)
    /\ UNCHANGED <<storeVars, backendFiles, drop>>

\* another client of the route (the route is not reserved to the page)
OtherRequest ==
    /\ Len(calls) < MaxCalls
    /\ \E method \in {"GET", "POST"}, body \in OtherBodies :
          /\ method = "GET" => body = NullBody
          /\ calls' = Append(calls, Call("other", method, body, "none", FALSE))
    /\ UNCHANGED <<storeVars, chat, backendFiles, drop>>

\* the handler of the route receives a request
ApiHandle ==
    /\ \E i \in 1..Len(calls) :
          /\ calls[i].stage = "api"
          /\ LET r == handlerEntry(calls[i].method, calls[i].body)
             IN  calls' = [calls EXCEPT ![i] =
                    IF r.respond
                    THEN [@ EXCEPT !.stage = Delivered(calls[i].origin),
                                   !.status = r.status, !.payload = r.payload,
                                   !.responses = @ + 1]
                    ELSE [@ EXCEPT !.stage = "backend", !.forwarded = r.forward]]
    /\ UNCHANGED <<storeVars, chat, backendFiles, drop>>

\* the fetch of the handler ends and the handler responds
BackendReplies ==
    /\ \E i \in 1..Len(calls), reply \in Replies :
          /\ calls[i].stage = "backend"
          /\ LET r == handlerReply(reply)
             IN  calls' = [calls EXCEPT ![i] =
                    [@ EXCEPT !.stage = Delivered(calls[i].origin), !.reply = reply,
                              !.status = r.status, !.payload = r.payload,
                              !.responses = @ + 1]]
    /\ UNCHANGED <<storeVars, chat, backendFiles, drop>>

\* handleLocalChat after its fetch: the answer or the error message is added
\* to the chat, and finally setIsLocalChatLoading(false)
ReceiveResponse ==
    /\ \E i \in 1..Len(calls) :
          /\ calls[i].stage = "responded"
          /\ calls' = [calls EXCEPT ![i].stage = "done"]
          /\ chat' = Synced([chat EXCEPT
                 !.chatHistory = Append(@, IF calls[i].status = 200
                                           THEN "assistant" ELSE "error"),
                 !.isLocalChatLoading = FALSE])
    /\ UNCHANGED <<storeVars, backendFiles, drop>>

\* onDrop up to its first await
DropStart ==
    /\ drop.pc = "idle"
    /\ \E acceptedFiles \in (SUBSET Files) \ {{}} :
          drop' = [pc |-> "clearing", files |-> acceptedFiles, outcome |-> "none"]
    /\ chat' = [chat EXCEPT !.isUploading = TRUE]
    /\ UNCHANGED <<storeVars, backendFiles, calls>>

\* axios.delete(files/clear) succeeds; onDrop goes on to the upload
ClearDone ==
    /\ drop.pc = "clearing"
    /\ backendFiles' = {}
    /\ drop' = [drop EXCEPT !.pc = "uploading"]
    /\ UNCHANGED <<storeVars, chat, calls>>

\* axios.delete(files/clear) fails: catch, then finally
ClearFails ==
    /\ drop.pc = "clearing"
    /\ drop' = [drop EXCEPT !.pc = "idle", !.outcome = "clearFailed"]
    /\ chat' = [chat EXCEPT !.isUploading = FALSE]
    /\ UNCHANGED <<storeVars, backendFiles, calls>>

\* axios.post(upload) succeeds: setUploadedFiles(newFiles), then
\* setChatBoxSettings, which renders Home, then finally
UploadDone ==
    /\ drop.pc = "uploading"
    /\ backendFiles' = backendFiles \cup drop.files
    /\ drop' = [drop EXCEPT !.pc = "idle", !.outcome = "uploaded"]
    /\ chat' = Synced([chat EXCEPT !.uploadedFiles = drop.files,
                                   !.isUploading = FALSE])
    /\ UNCHANGED <<storeVars, calls>>

\* axios.post(upload) fails, before or after the backend stored the files
UploadFails ==
    /\ drop.pc = "uploading"
    /\ \E stored \in BOOLEAN :
          backendFiles' = IF stored THEN backendFiles \cup drop.files
                          ELSE backendFiles
    /\ drop' = [drop EXCEPT !.pc = "idle", !.outcome = "uploadFailed"]
    /\ chat' = [chat EXCEPT !.isUploading = FALSE]
    /\ UNCHANGED <<storeVars, calls>>

\* removeFile of a listed file; the request fails when the backend does not
\* hold the file, and then nothing changes
removeFile(fileName) ==
    /\ fileName \in backendFiles
    /\ backendFiles' = backendFiles \ {fileName}
    /\ chat' = [chat EXCEPT !.uploadedFiles = @ \ {fileName}]

RemoveFile ==
    /\ \E fileName \in chat.uploadedFiles : removeFile(fileName)
    /\ UNCHANGED <<storeVars, calls, drop>>

\* clearAllFiles, offered when files are listed
ClearAllFiles ==
    /\ chat.uploadedFiles # {}
    /\ backendFiles' = {}
    /\ chat' = [chat EXCEPT !.uploadedFiles = {}]
    /\ UNCHANGED <<storeVars, calls, drop>>

\* the store is not used while the chat interface is displayed
InitChat ==
    /\ InitStore
    /\ persisted = Absent
    /\ capacity = 5000000
    /\ ChatIdle
    /\ backendFiles \in {{}, {"a.pdf"}}

\* the local chat: the page, other clients, the route and the backend
NextChat ==
    \/ CheckUploadedFiles
    \/ LocalProviderChange
    \/ Submit
    \/ OtherRequest
    \/ ApiHandle
    \/ BackendReplies
    \/ ReceiveResponse

SpecChat == InitChat /\ [][NextChat]_vars

\* the documents of the chat interface: modes, uploads and removals
NextFiles ==
    \/ CheckUploadedFiles
    \/ SelectMode
    \/ Submit
    \/ DropStart
    \/ ClearDone
    \/ ClearFails
    \/ UploadDone
    \/ UploadFails
    \/ RemoveFile
    \/ ClearAllFiles

SpecFiles == InitChat /\ [][NextFiles]_vars

-----------------------------------------------------------------------------
(* Properties                                                              *)

\* history.find(item => item.id === id): the first record with the id, or
\* NoItem with found = FALSE
FindThrows(h, id) ==
    \E i \in 1..Len(h) : IsNull(h[i]) /\ \A j \in 1..(i - 1) : h[j].id # id

getResearchById(h, id) ==
    LET hits == SelectSeq(h, LAMBDA item : item.id = id)
    IN  IF hits = <<>> THEN [found |-> FALSE, item |-> NoItem]
        ELSE [found |-> TRUE, item |-> Head(hits)]

Ids(h) == {h[i].id : i \in 1..Len(h)}

\* what a session reload would put in memory from the stored value
Reloaded == LoadResult(persisted, capacity).hist

\* the collection the key holds: none when the key is absent or holds no array
StoredCollection == IF persisted.kind = "array" THEN Parse(persisted) ELSE <<>>

\* some write of the last operation was accepted
SomeWriteAccepted ==
    \/ last.initial
    \/ last.recovery = "accepted"
    \/ last.fallback \in {"accepted", "recovered"}

\* C1: after a mutating operation (save, delete, clear, a load) completes,
\* the serialized size of the in-memory collection is at most the 4 MiB
\* budget, whatever the records hold.
C1_BoundedSize ==
    (last.op \in {"save", "delete", "clear", "load"} /\ last.fresh)
        => getStorageSize(history) <= MAX_STORAGE_SIZE

\* C2: after any sequence of load, save, delete and clear, the in-memory
\* collection holds at most 15 records.
C2_BoundedCount == Len(history) <= MAX_HISTORY_ITEMS

\* C2 witness: a save onto a collection that already holds 15 records has
\* completed, and the collection still holds 15.
C2_Witness ==
    /\ last.op = "save"
    /\ last.read = MAX_HISTORY_ITEMS
    /\ Len(history) = MAX_HISTORY_ITEMS

\* C3: delete(id) of a present id leaves N-1 of the N records in memory, none
\* with that id; the stored collection equals the in-memory one, so that a
\* reload does not bring the record back, whether or not the write was
\* accepted.
C3_DeleteRemovesOne ==
    (last.op = "delete" /\ last.fresh) =>
        /\ Len(history) = last.read - 1
        /\ last.id \notin Ids(history)
        /\ StoredCollection = history
        /\ last.id \notin Ids(Reloaded)

\* C4: a save followed immediately by a load returns a collection that holds
\* the saved record with the field values the in-memory record had after the
\* save. Stated for the saves during which the store accepted a write: when
\* it rejects every write, nothing can be there to load.
C4_SaveThenLoad ==
    (last.op = "save" /\ last.fresh /\ SomeWriteAccepted) =>
        LET saved == getResearchById(history, last.id)
            loaded == getResearchById(Reloaded, last.id)
        IN  saved.found /\ loaded.found /\ loaded.item = saved.item

\* C5: when save or delete completes and at least one write of that operation
\* was accepted (the initial write or a recovery write), the stored collection
\* equals the in-memory collection.
C5_AcceptedWriteIsDurable ==
    (last.op \in {"save", "delete"} /\ last.fresh /\ SomeWriteAccepted)
        => StoredCollection = history

\* C6: when save returns, the in-memory collection holds a record with the
\* returned id, whatever the outcome of the write and whatever the earlier
\* records and their timestamps.
C6_SaveKeepsNewRecord ==
    (last.op = "save" /\ ~last.threw) => getResearchById(history, last.id).found

\* C7: a load of a stored text that is not JSON, or is JSON but not an array,
\* yields an empty in-memory collection and leaves the key absent.
C7_CorruptDataRecovery ==
    (last.op = "load" /\ last.stored \in {"text", "json"})
        => history = <<>> /\ persisted = Absent

\* C8: after clear the in-memory collection is empty, the key is absent and a
\* load yields an empty collection, whatever was there before.
C8_ClearResets ==
    last.op = "clear" =>
        history = <<>> /\ persisted = Absent /\ Reloaded = <<>>

\* C8 witness: clear has run on a non-empty collection whose key held an array.
C8_Witness ==
    last.op = "clear" /\ last.read > 0 /\ last.stored = "array"

\* C9: for an answer longer than 5000 characters, the record save stores has
\* an answer of at most 5000 characters that ends with the ellipsis marker.
C9_AnswerTruncated ==
    (last.op = "save" /\ Length(last.args[2]) > MAX_ANSWER_LENGTH) =>
        LET saved == getResearchById(history, last.id)
        IN  saved.found =>
                /\ Length(saved.item.answer) <= MAX_ANSWER_LENGTH
                /\ EndsWithEllipsis(saved.item.answer)

EntryWithinLimits(e) ==
    /\ IsString(e.content) => Length(e.content) <= 1000
    /\ IsString(e.output) => Length(e.output) <= 500

\* C10: the record save creates has a question of at most 200 characters and
\* at most 3 orderedData entries, the first 3 of the input in their order,
\* each with a content of at most 1000 and an output of at most 500
\* characters.
C10_FieldLimits ==
    last.op = "save" =>
        LET od == last.item.orderedData
        IN  /\ Length(last.item.question) <= 200
            /\ Len(od) = Min(Len(last.args[3]), MAX_ORDERED_DATA_ITEMS)
            /\ \A i \in 1..Len(od) :
                  /\ od[i].type = last.args[3][i].type
                  /\ EntryWithinLimits(od[i])

\* the collection is in descending order of timestamp
NewestFirst(h) ==
    \A i \in 1..(Len(h) - 1) : h[i].timestamp >= h[i + 1].timestamp

\* C11: after any sequence of load, save (the minimal fallback included) and
\* delete, the in-memory collection is sorted by timestamp, newest first.
C11_NewestFirstOrder == NewestFirst(history)

\* C11 witness: a save has put its record behind a record with a later
\* timestamp (the clock had been set back), so the sort moved it.
C11_Witness ==
    /\ last.op = "save"
    /\ Len(history) > 1
    /\ history[1].timestamp > last.item.timestamp
    /\ \E i \in 2..Len(history) : history[i].id = last.id

\* C12: the records of the collection have pairwise distinct ids, and the
\* record a save creates has a greater id than every record created before
\* it, whenever the saves happen.
C12_UniqueIncreasingIds ==
    /\ \A i, j \in 1..Len(history) : i # j => history[i].id # history[j].id
    /\ last.op = "save" =>
          \A i \in 1..Len(history) :
              history[i].timestamp # last.item.timestamp \/ history[i].id # last.id
                  => history[i].id < last.id

\* C13: no operation of the store ends with an exception, whatever text the
\* key held at load (not JSON, JSON that is no array, an array of elements
\* that are no records) and whether or not writes are accepted; the in-memory
\* collection stays a list of records, on which getById completes normally.
C13_NoErrorSurfaces ==
    /\ ~last.threw
    /\ ~HasNull(history)
    /\ \A id \in Ids(history) \cup {last.id} : ~FindThrows(history, id)

\* the first j records of a collection
Prefix(h, j) == SubSeq(h, 1, j)

\* the input of compaction sorted newest first and capped at 15 records
SortedCapped(in) == Slice(SortNewestFirst(in), MAX_HISTORY_ITEMS)

OverBudget(h) == getStorageSize(h) > MAX_STORAGE_SIZE

\* a record with its answer cut to its first 2500 characters (and the marker
\* when it was longer) and its orderedData cut to its first 2 entries
FieldShrunk(item) ==
    Item(item.id, item.question,
         IF Length(item.answer) > 2500
         THEN Concat(Substring(item.answer, 2500), Ellipsis) ELSE item.answer,
         item.timestamp, Slice(item.orderedData, 2))

\* the collection compaction drops records from: the capped collection,
\* field-shrunk when it is over the budget
Worked(in) ==
    LET capped == SortedCapped(in)
    IN  IF OverBudget(capped)
        THEN [i \in 1..Len(capped) |-> FieldShrunk(capped[i])]
        ELSE capped

\* the record counts for which the worked collection fits the budget
FitCounts(in) == {j \in 1..Len(Worked(in)) : ~OverBudget(Prefix(Worked(in), j))}

\* the last operation ran cleanupHistory to its end
Compacted == last.op \in {"save", "load"} /\ ~last.threw

\* C14: compaction keeps exactly the k newest records of its input, k being
\* the largest count up to 15 for which the (possibly field-shrunk)
\* collection fits the 4 MiB budget, or 1 when not even one record fits; it
\* adds no record and does not empty a non-empty collection.
C14_KeepsNewestThatFit ==
    Compacted =>
        LET fit == FitCounts(last.cin)
            k == IF fit = {} THEN Min(1, Len(last.cin))
                 ELSE CHOOSE j \in fit : \A m \in fit : m <= j
        IN  /\ last.cout = Prefix(Worked(last.cin), k)
            /\ Len(last.cout) <= Len(last.cin)
            /\ last.cin # <<>> => last.cout # <<>>

\* C14 witness: compaction dropped records for their size and kept more than
\* one (13 of 15 records of 300 kB each).
C14_Witness ==
    /\ Compacted
    /\ Len(last.cout) > 1
    /\ Len(last.cout) < Len(SortedCapped(last.cin))

\* C15: compaction changes fields only when the capped collection is over
\* the budget; then every kept record has its answer cut to 2500 characters
\* (plus the marker when it was longer) and its orderedData to 2 entries;
\* otherwise every kept record is returned unchanged.
C15_ShrinksOnlyOverBudget ==
    Compacted =>
        LET capped == SortedCapped(last.cin)
        IN  \A i \in 1..Len(last.cout) :
                last.cout[i] = IF OverBudget(capped) THEN FieldShrunk(capped[i])
                               ELSE capped[i]

\* C15 witness: compaction ran on a capped collection over the budget and
\* cut the answer and the orderedData of a record it kept.
C15_Witness ==
    /\ Compacted
    /\ OverBudget(SortedCapped(last.cin))
    /\ \E i \in 1..Len(last.cout) :
          /\ Length(SortedCapped(last.cin)[i].answer) > 2500
          /\ Len(SortedCapped(last.cin)[i].orderedData) > 2
          /\ Length(last.cout[i].answer) = 2503
          /\ Len(last.cout[i].orderedData) = 2

\* a step in which saveResearch or deleteResearch ran to its end
WroteInStep == ops' = ops + 1 /\ last'.op \in {"save", "delete"} /\ ~last'.threw

\* C16: when the write of an operation is rejected for capacity, the recovery
\* stores the compaction of what the key held; when a delete's write and its
\* recovery both fail, the key is absent afterwards and the in-memory
\* collection is the previous one without the deleted record.
C16_RecoveryThenRemoval ==
    [][ (WroteInStep /\ ~last'.initial) =>
          /\ (last'.recovery = "accepted" /\ last'.fallback = "none") =>
                persisted' = Stringify(cleanupHistory(StoredCollection))
          /\ last'.op = "delete" =>
                /\ history' = RemoveId(history, last'.id)
                /\ last'.recovery # "accepted" => persisted' = Absent
      ]_vars

\* C16 witness: a delete has completed whose write and whose recovery write
\* were both rejected, with records left in memory.
C16_Witness ==
    /\ last.op = "delete"
    /\ ~last.initial
    /\ last.recovery = "rejected"
    /\ last.stored = "array"
    /\ history # <<>>

\* the last operation was a save that used its minimal fallback
FallbackUsed == last.op = "save" /\ ~last.threw /\ last.fallback # "none"

\* C17: save uses its minimal fallback only after the initial write and the
\* recovery have failed; the in-memory collection is then the 5 newest
\* records of the compacted collection, each with a question of at most 100
\* and an answer of at most 500 characters and no orderedData, the new record
\* among them, and it is the value given to the storage.
C17_MinimalFallback ==
    FallbackUsed =>
        /\ ~last.initial /\ last.recovery # "accepted"
        /\ Len(history) = Min(5, Len(last.cout))
        /\ \A i \in 1..Len(history) :
              /\ history[i].id = last.cout[i].id
              /\ history[i].timestamp = last.cout[i].timestamp
              /\ history[i].question = Substring(last.cout[i].question, 100)
              /\ history[i].answer = Substring(last.cout[i].answer, 500)
              /\ Length(history[i].question) <= 100
              /\ Length(history[i].answer) <= 500
              /\ history[i].orderedData = <<>>
        /\ \E i \in 1..Len(history) :
              history[i].id = last.id /\ history[i].timestamp = last.item.timestamp
        /\ last.fallback = "accepted" => StoredCollection = history

\* a step of the load effect on a stored array that compaction accepts
LoadedArrayInStep ==
    /\ last'.op = "load" /\ ops' = ops /\ capacity' = capacity
    /\ Truthy(persisted) /\ persisted.kind = "array"
    /\ ~SortThrows(Parse(persisted))

C20_SavedOnce == ShouldSave => page.saved <= 1

\* C21: after the user deletes a record or clears the history in the sidebar,
\* the history gains no record until a new research completes, also while a
\* completed research is still displayed: no save runs to its end in between.
C21_RemovalIsKept == page.removed => ~(last.op = "save" /\ ~last.threw)

\* the model ChatInterface derives from the provider of the toggle
LocalModel(provider) == IF provider = "ollama" THEN "mistral:7b" ELSE "gpt-4o-mini"

\* the route has made its request to the backend for the call
Contacted(call) == call.forwarded.kind # "none"

\* C22: the provider the user selected in the toggle, and the model derived
\* from it, are carried by the request that reaches the backend for the
\* message: they are preserved through handleSubmit, handleLocalChat and the
\* handler of the route.
C22_ProviderReachesBackend ==
    \A i \in 1..Len(calls) :
        (calls[i].origin = "page" /\ Contacted(calls[i])) =>
            /\ calls[i].body.provider = calls[i].selected
            /\ calls[i].body.model = LocalModel(calls[i].selected)
            /\ calls[i].forwarded.provider = calls[i].selected
            /\ calls[i].forwarded.model = LocalModel(calls[i].selected)

\* a request of the page is awaiting its response
Awaiting == \E i \in 1..Len(calls) : calls[i].origin = "page" /\ calls[i].stage # "done"

\* C23: isLocalChatLoading is true at every moment at which a local-chat
\* request of the page is awaiting its response and false when none is, also
\* when a second message is sent before the first response has arrived.
C23_LoadingCoversRequests == chat.isLocalChatLoading <=> Awaiting

\* C24: in every reachable state of the chat interface, local mode implies
\* that the uploaded-file list is not empty, and no local-chat message is
\* submitted while no document is listed.
C24_LocalOnlyWithDocuments ==
    /\ chat.selectedMode = "local" => chat.uploadedFiles # {}
    /\ \A i \in 1..Len(calls) : calls[i].origin = "page" => calls[i].documents

\* a step in which onDrop ends
DropEnds == drop.pc # "idle" /\ drop'.pc = "idle"

\* C25: when onDrop ends, the displayed file list equals the set of files the
\* backend holds: after a successful upload it is exactly the dropped files,
\* after a failed clear or upload whatever the backend still holds.
C25_ListMatchesBackend ==
    [][ DropEnds =>
          /\ chat'.uploadedFiles = backendFiles'
          /\ drop'.outcome = "uploaded" => chat'.uploadedFiles = drop.files
      ]_vars

\* the body of a request has no message, or one that is blank after trimming
MissingOrBlank(body) ==
    \/ body.kind = "null"
    \/ body.message.kind = "undefined"
    \/ body.message.kind = "string" /\ Trim(body.message.text) = <<>>

\* the route has answered the call
Answered(call) == call.stage \in {"responded", "done"}

\* C29: the handler of the route sends exactly one response per request and
\* contacts the backend only for a POST whose message is not blank after
\* trimming: another method gets 405 and a missing or blank message 400, both
\* with status 'error' and no backend call; otherwise the response is 200
\* with the backend's body when the backend replied OK, and 500 with status
\* 'error' when the backend call failed or replied not-OK.
C29_OneResponsePerRequest ==
    \A i \in 1..Len(calls) :
        LET call == calls[i]
        IN  /\ call.responses = (IF Answered(call) THEN 1 ELSE 0)
            /\ Contacted(call) => call.method = "POST" /\ ~MissingOrBlank(call.body)
            /\ Answered(call) =>
                  IF call.method # "POST"
                  THEN call.status = 405 /\ call.payload = "error" /\ ~Contacted(call)
                  ELSE IF MissingOrBlank(call.body)
                  THEN call.status = 400 /\ call.payload = "error" /\ ~Contacted(call)
                  ELSE /\ Contacted(call)
                       /\ call.reply \in {"ok", "badjson"} =>
                             call.status = 200 /\ call.payload = "backend"
                       /\ call.reply \in {"notok", "failed"} =>
                             call.status = 500 /\ call.payload = "error"

\* a step in which saveResearch or deleteResearch ran to its end
MutatedInStep == ops' = ops + 1 /\ ~last'.threw

\* C26: a mutating operation invoked after the previous one has returned
\* operates on the in-memory collection as that operation left it, whether or
\* not the component rendered in between: a save adds its record to that
\* collection (so two successive saves keep both records, up to eviction, and
\* a save after a delete or clear brings nothing back), and a delete removes
\* its record from that collection.
C26_NoLostUpdate ==
    [][ MutatedInStep =>
          /\ last'.op = "save" => last'.cin = <<last'.item>> \o history
          /\ last'.op = "delete" => history' = RemoveId(history, last'.id)
      ]_vars

\* a text derived from another one is not longer than it
NotLonger(out, in) == (IsString(out) /\ IsString(in)) => Length(out) <= Length(in)

\* the JSON length of a record
RecordSize(item) == JsonItemLen(StringifyItem(item))

\* C27: no truncation step lengthens a text: the answer save stores, the
\* content and output of an entry cleanData returns and the answer the shrink
\* step of compaction produces are never longer than the text they come
\* from, so the shrink step never increases the serialized size of a record.
C27_TruncationNeverLengthens ==
    /\ last.op = "save" =>
          /\ NotLonger(last.item.answer, last.args[2])
          /\ \A i \in 1..Len(last.item.orderedData) :
                /\ NotLonger(last.item.orderedData[i].content, last.args[3][i].content)
                /\ NotLonger(last.item.orderedData[i].output, last.args[3][i].output)
    /\ Compacted =>
          \A i \in 1..Len(last.cout) :
              /\ NotLonger(last.cout[i].answer, SortedCapped(last.cin)[i].answer)
              /\ RecordSize(last.cout[i]) <= RecordSize(SortedCapped(last.cin)[i])

\* C28: compaction is idempotent: cleanupHistory applied to its own output
\* returns the same collection, with the same records in the same order and
\* the same field values.
C28_CompactionIdempotent ==
    Compacted => cleanupHistory(last.cout) = last.cout

\* C28 witness: compaction has returned a collection that is still over the
\* budget (one record that no reduction makes fit), so that a second
\* application reduces the fields again.
C28_Witness ==
    /\ Compacted
    /\ OverBudget(last.cout)
    /\ Length(last.cout[1].answer) = 2503

====
